---- MODULE Spec2Model ----
(***************************************************************************)
(* A model of mnamer/utils.py: the year-range parser (year_range_parse),   *)
(* the cached JSON request helper (request_json) and the title caser       *)
(* (str_title_case).                                                       *)
(*                                                                         *)
(* Python strings are sequences of one-character strings.  Python's None   *)
(* and the optional regex groups are records with a "present" flag.        *)
(***************************************************************************)
EXTENDS Integers, Sequences, FiniteSets, TLC

VARIABLES
    yr_pc,          \* "call" | "done": position of the caller of year_range_parse
    years,          \* the first argument of year_range_parse
    tolerance,      \* the second argument of year_range_parse
    CURRENT_YEAR,   \* mnamer.const.CURRENT_YEAR, fixed when the module is loaded
    yr_result       \* what the last call of year_range_parse returned

yr_vars == <<yr_pc, years, tolerance, CURRENT_YEAR, yr_result>>

VARIABLES
    session_created,    \* hasattr(get_session, "session")
    is_cache_disabled,  \* session._is_cache_disabled of the session singleton
    rq_args,            \* the arguments of the last call of request_json
    rq_sent,            \* what the last call handed to session.request
    rq_outcome,         \* what session.request did in the last call
    rq_return           \* how the last call of request_json ended

rq_vars == <<session_created, is_cache_disabled, rq_args, rq_sent, rq_outcome, rq_return>>

VARIABLES
    tc_pc,          \* position inside str_title_case, or "done" / "raised"
    tc_in,          \* the argument of the call of str_title_case
    s,              \* the local s: the working string, at the end the result
    string_lower,   \* the local string_lower
    string_length,  \* the local string_length
    lower_todo,     \* lowercase exceptions the loop of line 474 has not reached
    upper_todo,     \* uppercase exceptions the loop of line 489 has not reached
    tc_reapplied    \* the argument is the result of an earlier call

tc_vars == <<tc_pc, tc_in, s, string_lower, string_length, lower_todo, upper_todo,
             tc_reapplied>>

vars == <<yr_vars, rq_vars, tc_vars>>

----------------------------------------------------------------------------
(* Bounds *)

MaxTokens == 3          \* inputs are concatenations of at most MaxTokens tokens
MaxTolerance == 2       \* tolerance ranges over 0 .. MaxTolerance
MinCurrentYear == 2025  \* CURRENT_YEAR ranges over MinCurrentYear .. MaxCurrentYear
MaxCurrentYear == 2026
MinStatus == 200        \* status codes MinStatus .. MaxStatus, and a few more
MaxStatus == 206
MaxTitleLen == 4        \* titles of at most MaxTitleLen characters, and the samples

----------------------------------------------------------------------------
(* Generic helpers on sequences of characters *)

\* Python slice t[i:j] with 0-based, clamped bounds, as a 1-based sequence.
Slice(t, i, j) ==
    LET lo == IF i < 0 THEN 0 ELSE i
        hi == IF j > Len(t) THEN Len(t) ELSE j
    IN  IF hi <= lo THEN <<>> ELSE SubSeq(t, lo + 1, hi)

RECURSIVE Concat(_)
Concat(ts) == IF ts = <<>> THEN <<>> ELSE Head(ts) \o Concat(Tail(ts))

RECURSIVE SeqsUpTo(_, _)
SeqsUpTo(S, n) ==
    IF n = 0 THEN {<<>>}
    ELSE LET shorter == SeqsUpTo(S, n - 1)
         IN  shorter \cup {Append(q, x) : q \in {r \in shorter : Len(r) = n - 1}, x \in S}

----------------------------------------------------------------------------
(* year_range_parse *)

Whitespace == {" ", "\t", "\n"}
DelimChars == {"-", ",", ":", " "}
DigitChars == <<"0", "1", "2", "3", "4", "5", "6", "7", "8", "9">>
DigitSet == {DigitChars[i] : i \in 1..10}
DigitVal(c) == (CHOOSE i \in 1..10 : DigitChars[i] = c) - 1

NoneValue == [kind |-> "none", num |-> 0, str |-> <<>>]
IntValue(n) == [kind |-> "int", num |-> n, str |-> <<>>]
StrValue(t) == [kind |-> "str", num |-> 0, str |-> t]

RECURSIVE NatToStr(_)
NatToStr(n) ==
    IF n < 10 THEN <<DigitChars[n + 1]>>
    ELSE Append(NatToStr(n \div 10), DigitChars[(n % 10) + 1])

\* str(years)
PyStr(v) ==
    CASE v.kind = "none" -> <<"N", "o", "n", "e">>
      [] v.kind = "int"  -> IF v.num < 0 THEN <<"-">> \o NatToStr(0 - v.num)
                            ELSE NatToStr(v.num)
      [] OTHER           -> v.str

RECURSIVE LStrip(_)
LStrip(t) ==
    IF t # <<>> /\ Head(t) \in Whitespace THEN LStrip(Tail(t)) ELSE t

RECURSIVE RStrip(_)
RStrip(t) ==
    IF t # <<>> /\ t[Len(t)] \in Whitespace THEN RStrip(SubSeq(t, 1, Len(t) - 1)) ELSE t

\* str.strip()
Strip(t) == RStrip(LStrip(t))

\* (?:19|20)\d{2} at 1-based position p
IsYearAt(t, p) ==
    /\ p >= 1
    /\ p + 3 <= Len(t)
    /\ \/ t[p] = "1" /\ t[p + 1] = "9"
       \/ t[p] = "2" /\ t[p + 1] = "0"
    /\ t[p + 2] \in DigitSet
    /\ t[p + 3] \in DigitSet

\* $ : the end of the string, or just before a final newline
AtEnd(t, p) ==
    \/ p = Len(t) + 1
    \/ p = Len(t) /\ t[p] = "\n"

\* One way the regex can lay itself over t: group 1 present or not, a
\* delimiter run of d characters, group 3 present or not.
ShapeMatches(t, hasStart, d, hasEnd) ==
    LET p == IF hasStart THEN 5 ELSE 1
        q == p + d
    IN  /\ hasStart => IsYearAt(t, 1)
        /\ q - 1 <= Len(t)
        /\ \A k \in p..(q - 1) : t[k] \in DelimChars
        /\ hasEnd => IsYearAt(t, q)
        /\ AtEnd(t, IF hasEnd THEN q + 4 ELSE q)

\* The backtracking order of re.match: every group is greedy, so a present
\* group 1 is tried before an absent one, a longer delimiter run before a
\* shorter one, a present group 3 before an absent one.
ShapeRank(t, hasStart, d, hasEnd) ==
    (IF hasStart THEN 0 ELSE 1) * (2 * (Len(t) + 1))
        + (Len(t) - d) * 2
        + (IF hasEnd THEN 0 ELSE 1)

Shapes(t) ==
    {sh \in [hasStart : BOOLEAN, d : 0..Len(t), hasEnd : BOOLEAN] :
        ShapeMatches(t, sh.hasStart, sh.d, sh.hasEnd)}

Absent == [present |-> FALSE, text |-> <<>>]
Group(txt) == [present |-> TRUE, text |-> txt]

\* re.match(regex, t): matched = FALSE stands for the None it returns.
ReMatch(t) ==
    IF Shapes(t) = {} THEN [matched |-> FALSE, start |-> Absent, dash |-> Absent, end |-> Absent]
    ELSE LET sh == CHOOSE x \in Shapes(t) :
                      \A y \in Shapes(t) :
                          ShapeRank(t, x.hasStart, x.d, x.hasEnd)
                              <= ShapeRank(t, y.hasStart, y.d, y.hasEnd)
             p == IF sh.hasStart THEN 5 ELSE 1
         IN  [matched |-> TRUE,
              start   |-> IF sh.hasStart THEN Group(SubSeq(t, 1, 4)) ELSE Absent,
              dash    |-> Group(SubSeq(t, p, p + sh.d - 1)),
              end     |-> IF sh.hasEnd THEN Group(SubSeq(t, p + sh.d, p + sh.d + 3)) ELSE Absent]

\* Python truthiness of a group: None and "" are falsy.
Truthy(g) == g.present /\ g.text # <<>>

\* dash is either a group or the literal True.
DashTrue == [present |-> TRUE, text |-> <<"T">>]

\* Lines 525-528: the groups of the match, or (None, None, True) when
\* re.match returned None and .groups() raised AttributeError.
MatchGroupsUnguarded(t) ==
    LET m == ReMatch(t)
    IN  [raised |-> ~m.matched, start |-> m.start, dash |-> m.dash, end |-> m.end]

MatchGroups(t) ==
    LET m == ReMatch(t)
    IN  IF m.matched
        THEN [raised |-> FALSE, start |-> m.start, dash |-> m.dash, end |-> m.end]
        ELSE [raised |-> FALSE, start |-> Absent, dash |-> DashTrue, end |-> Absent]

\* Lines 529-530
NoYearDefaults(g) ==
    IF ~Truthy(g.start) /\ ~Truthy(g.end)
    THEN [g EXCEPT !.start = Absent, !.end = Absent, !.dash = DashTrue]
    ELSE g

RECURSIVE PyInt(_)
\* int(text) for a text of decimal digits
PyInt(t) ==
    IF t = <<>> THEN 0 ELSE 10 * PyInt(SubSeq(t, 1, Len(t) - 1)) + DigitVal(t[Len(t)])

default_start == 1900

\* Lines 531-534
ResolveEndAlwaysDefault(g, start, default_end) ==
    IF Truthy(g.end) THEN PyInt(g.end.text) ELSE default_end

ResolveEnd(g, start, default_end) ==
    IF ~Truthy(g.dash) THEN start
    ELSE IF Truthy(g.end) THEN PyInt(g.end.text) ELSE default_end

ResolveStartNoDefault(g) ==
    IF Truthy(g.start) THEN PyInt(g.start.text)
    ELSE IF Truthy(g.end) THEN PyInt(g.end.text) ELSE default_start

ResolveStart(g) ==
    IF Truthy(g.start) THEN PyInt(g.start.text) ELSE default_start

year_range_parse(v, tol, default_end) ==
    LET t     == Strip(PyStr(v))
        g     == NoYearDefaults(MatchGroups(t))
        start == ResolveStart(g)
        end   == ResolveEnd(g, start, default_end)
    IN  IF g.raised THEN [raised |-> TRUE, a |-> 0, b |-> 0]
        ELSE [raised |-> FALSE, a |-> start - tol, b |-> end + tol]

YearTokens ==
    { <<"2", "0", "1", "0">>, <<"2", "0", "1", "5">>, <<"2", "0", "9", "9">>,
      <<"2", "0">>, <<"-">>, <<",">>, <<" ">>, <<"x">> }

YearStrings == {Concat(ts) : ts \in SeqsUpTo(YearTokens, MaxTokens)}

YearInts == {2010, 1999, 201, 0 - 2010}

YearValues ==
    {NoneValue} \cup {IntValue(n) : n \in YearInts} \cup {StrValue(t) : t \in YearStrings}

Tolerances == 0..MaxTolerance

NoResult == [raised |-> FALSE, a |-> 0, b |-> 0]

\* No call of year_range_parse is under way.
YearOff ==
    /\ yr_pc = "off"
    /\ years = NoneValue
    /\ tolerance = 1
    /\ CURRENT_YEAR = MinCurrentYear
    /\ yr_result = NoResult

YearCall ==
    /\ yr_pc = "call"
    /\ years \in YearValues
    /\ tolerance \in Tolerances
    /\ CURRENT_YEAR \in MinCurrentYear..MaxCurrentYear
    /\ yr_result = NoResult

\* The call year_range_parse(years, tolerance) runs to its return.
YearRangeParse ==
    /\ yr_pc = "call"
    /\ yr_result' = year_range_parse(years, tolerance, CURRENT_YEAR)
    /\ yr_pc' = "done"
    /\ UNCHANGED <<years, tolerance, CURRENT_YEAR>>
    /\ UNCHANGED <<rq_vars, tc_vars>>

----------------------------------------------------------------------------
(* get_session, clear_cache, request_json *)

\* Response bodies, as the text the server sent.
Bodies == {"{}", "[1]", "null", "<html>", ""}

\* Python values a JSON text decodes to.
PyNone == "None"
JsonTable == [b \in {"{}", "[1]", "null"} |->
                CASE b = "{}"  -> "dict()"
                  [] b = "[1]" -> "[1]"
                  [] OTHER     -> PyNone]

\* response.json(): the decoded value, or an error for a text that is not JSON.
ResponseJson(body) ==
    IF body \in DOMAIN JsonTable
    THEN [raised |-> FALSE, value |-> JsonTable[body]]
    ELSE [raised |-> TRUE, value |-> PyNone]

StatusCodes == (MinStatus..MaxStatus) \cup {100, 226, 301, 304, 404, 500, 503}

\* What session.request can do: raise (timeout, connection error, ...) or
\* return a response.
Outcomes ==
    {[kind |-> "raise", status_code |-> 0, body |-> ""]}
        \cup [kind : {"response"}, status_code : StatusCodes, body : Bodies]

Urls == {"", "http://api/x"}
RequestBodies == {PyNone, "dict(q=1)"}

RequestArgs == [url : Urls, body : RequestBodies, cache : BOOLEAN]

NoReturn == [raised |-> FALSE, status |-> 0, content |-> PyNone]
NothingSent == [method |-> "", cache_disabled |-> FALSE]
NoOutcome == [kind |-> "none", status_code |-> 0, body |-> ""]

\* Lines 272-277
Method(body) == IF body # PyNone THEN "POST" ELSE "GET"

\* Lines 294-298: the (status, content) pair from the outcome of the request.
StatusAndContentUnchecked(outcome) ==
    IF outcome.kind = "raise"
    THEN [status |-> 500, content |-> PyNone]
    ELSE LET decoded == ResponseJson(outcome.body)
         IN  IF decoded.raised
             THEN [status |-> 500, content |-> PyNone]
             ELSE [status |-> outcome.status_code, content |-> decoded.value]

StatusAndContent(outcome) ==
    IF outcome.kind = "raise"
    THEN [status |-> 500, content |-> PyNone]
    ELSE IF outcome.status_code \div 100 = 2
         THEN LET decoded == ResponseJson(outcome.body)
              IN  IF decoded.raised
                  THEN [status |-> 500, content |-> PyNone]
                  ELSE [status |-> outcome.status_code, content |-> decoded.value]
         ELSE [status |-> outcome.status_code, content |-> PyNone]

\* The state after the module is loaded: no session yet.
RequestOff ==
    /\ session_created = FALSE
    /\ is_cache_disabled = FALSE
    /\ rq_args = [url |-> "", body |-> PyNone, cache |-> TRUE]
    /\ rq_sent = NothingSent
    /\ rq_outcome = NoOutcome
    /\ rq_return = NoReturn

\* clear_cache(): get_session() creates the singleton on first use.
ClearCache ==
    /\ session_created' = TRUE
    /\ UNCHANGED <<is_cache_disabled, rq_args, rq_sent, rq_outcome, rq_return>>
    /\ UNCHANGED <<yr_vars, tc_vars>>

\* request_json(url, body=body, cache=cache) where "assert url" fails.
RequestJsonAssertFails ==
    \E args \in RequestArgs :
        /\ args.url = ""
        /\ rq_args' = args
        /\ rq_sent' = NothingSent
        /\ rq_outcome' = NoOutcome
        /\ rq_return' = [raised |-> TRUE, status |-> 0, content |-> PyNone]
        /\ UNCHANGED <<session_created, is_cache_disabled>>
        /\ UNCHANGED <<yr_vars, tc_vars>>

\* request_json(url, body=body, cache=cache) from the assert to the return.
RequestJson ==
    \E args \in RequestArgs, outcome \in Outcomes :
        /\ args.url # ""
        /\ session_created' = TRUE
        /\ rq_args' = args
        /\ rq_sent' = [method |-> Method(args.body), cache_disabled |-> ~args.cache]
        /\ rq_outcome' = outcome
        /\ rq_return' = [raised  |-> FALSE,
                         status  |-> StatusAndContent(outcome).status,
                         content |-> StatusAndContent(outcome).content]
        \* finally: session._is_cache_disabled = initial_cache_state
        /\ is_cache_disabled' = is_cache_disabled
        /\ UNCHANGED <<yr_vars, tc_vars>>

----------------------------------------------------------------------------
(* findall, str_title_case *)

LowerLetters == <<"a", "b", "c", "d", "e", "f", "g", "h", "i", "j", "k", "l", "m",
                  "n", "o", "p", "q", "r", "s", "t", "u", "v", "w", "x", "y", "z">>
UpperLetters == <<"A", "B", "C", "D", "E", "F", "G", "H", "I", "J", "K", "L", "M",
                  "N", "O", "P", "Q", "R", "S", "T", "U", "V", "W", "X", "Y", "Z">>

\* str.upper() of one character: the full Unicode case mapping, under which
\* the upper case of the sharp s is the two characters SS.
Upper(c) ==
    IF c = "ß" THEN <<"S", "S">>
    ELSE IF \E k \in 1..26 : LowerLetters[k] = c
         THEN <<UpperLetters[CHOOSE k \in 1..26 : LowerLetters[k] = c]>>
         ELSE <<c>>

\* str.lower() of one character
Lower(c) ==
    IF \E k \in 1..26 : UpperLetters[k] = c
    THEN <<LowerLetters[CHOOSE k \in 1..26 : UpperLetters[k] = c]>>
    ELSE <<c>>

RECURSIVE StrUpper(_)
StrUpper(t) == IF t = <<>> THEN <<>> ELSE Upper(Head(t)) \o StrUpper(Tail(t))

RECURSIVE StrLower(_)
StrLower(t) == IF t = <<>> THEN <<>> ELSE Lower(Head(t)) \o StrLower(Tail(t))

\* t[i] with a 0-based index; InRange(t, i) tells whether it raises IndexError.
CharAt(t, i) == t[i + 1]
InRange(t, i) == i >= 0 /\ i < Len(t)

RECURSIVE FindAllFrom(_, _, _)
FindAllFrom(t, ss, i) ==
    IF i + Len(ss) > Len(t) THEN <<>>
    ELSE (IF Slice(t, i, i + Len(ss)) = ss THEN <<i>> ELSE <<>>)
            \o FindAllFrom(t, ss, i + 1)

\* The 0-based start positions of all (possibly overlapping) matches of ss
\* in t, in ascending order.
findall(t, ss) == FindAllFrom(t, ss, 0)

lowercase_exceptions_list ==
    <<
      <<"a">>, <<"a", "n">>, <<"a", "n", "d">>, <<"a", "s">>, <<"a", "t">>,
      <<"b", "u", "t">>, <<"b", "y">>, <<"d", "e">>, <<"d", "e", "s">>,
      <<"d", "u">>, <<"f", "o", "r">>, <<"f", "r", "o", "m">>, <<"i", "n">>,
      <<"i", "s">>, <<"l", "e">>, <<"n", "o", "r">>, <<"o", "f">>,
      <<"o", "n">>, <<"o", "r">>, <<"t", "h", "e">>, <<"t", "o">>,
      <<"u", "n">>, <<"u", "n", "e">>, <<"w", "i", "t", "h">>,
      <<"v", "i", "a">>
    >>

uppercase_exceptions_list ==
    <<
      <<"i">>, <<"i", "i">>, <<"i", "i", "i">>, <<"i", "v">>, <<"v">>,
      <<"v", "i">>, <<"v", "i", "i">>, <<"v", "i", "i", "i">>, <<"i", "x">>,
      <<"x">>, <<"2", "d">>, <<"3", "d">>, <<"a", "u">>, <<"a", "k", "a">>,
      <<"a", "t", "m">>, <<"b", "b", "c">>, <<"b", "f", "f">>,
      <<"c", "i", "a">>, <<"c", "s", "i">>, <<"d", "c">>, <<"d", "o", "a">>,
      <<"e", "s", "p", "n">>, <<"f", "b", "i">>, <<"i", "r", "a">>,
      <<"j", "f", "k">>, <<"l", "o", "l">>, <<"m", "l", "b">>,
      <<"m", "l", "k">>, <<"m", "t", "v">>, <<"n", "b", "a">>,
      <<"n", "f", "l">>, <<"n", "h", "l">>, <<"n", "s", "f", "w">>,
      <<"n", "y", "c">>, <<"o", "m", "g">>, <<"p", "g", "a">>, <<"o", "j">>,
      <<"r", "s", "v", "p">>, <<"t", "n", "t">>, <<"t", "v">>,
      <<"u", "f", "c">>, <<"u", "f", "o">>, <<"u", "k">>, <<"u", "s", "a">>,
      <<"v", "i", "p">>, <<"w", "t", "f">>, <<"w", "w", "e">>,
      <<"w", "w", "i">>, <<"w", "w", "i", "i">>, <<"x", "x", "x">>,
      <<"y", "o", "l", "o">>
    >>

lowercase_exceptions ==
    {lowercase_exceptions_list[k] : k \in 1..Len(lowercase_exceptions_list)}
uppercase_exceptions ==
    {uppercase_exceptions_list[k] : k \in 1..Len(uppercase_exceptions_list)}

padding_chars == <<".", "-", " ">>
paren_chars == <<"[", "]", "(", ")", "{", "}", "<", ">", "{", "}">>
punctuation_chars ==
    paren_chars \o <<"\"", "!", "?", "$", ",", "-", ".", ":", ";", "@", "_", "`", "'">>

\* c in chars, for a one-character c
CharIn(c, chars) == \E k \in 1..Len(chars) : chars[k] = c

\* The working string, and whether an IndexError has been raised.
Ok(t) == [s |-> t, raised |-> FALSE]
Raise(t) == [s |-> t, raised |-> TRUE]

RECURSIVE PaddingLoop(_, _, _)
\* Lines 457-463 for the remaining positions ps
PaddingLoop(st, ps, n) ==
    IF ps = <<>> \/ st.raised THEN st
    ELSE LET pos == Head(ps)
         IN  IF pos + 1 = n THEN st
             ELSE IF ~InRange(st.s, pos + 1) THEN Raise(st.s)
             ELSE IF pos + 2 < n
                  THEN PaddingLoop(Ok(Slice(st.s, 0, pos + 1)
                                        \o Upper(CharAt(st.s, pos + 1))
                                        \o Slice(st.s, pos + 2, Len(st.s))),
                                   Tail(ps), n)
                  ELSE PaddingLoop(Ok(Slice(st.s, 0, pos + 1)
                                        \o Upper(CharAt(st.s, pos + 1))),
                                   Tail(ps), n)

RECURSIVE UppercaseAfterPadding(_, _, _)
\* Lines 456-463: chars are the padding characters still to go through; the
\* generator findall(s, char) searches the string s was bound to when the
\* inner loop started.
UppercaseAfterPadding(st, chars, n) ==
    IF chars = <<>> \/ st.raised THEN st
    ELSE UppercaseAfterPadding(PaddingLoop(st, findall(st.s, <<Head(chars)>>), n),
                               Tail(chars), n)

RECURSIVE ParenLoop(_, _, _)
\* Lines 467-471 for the remaining positions ps
ParenLoop(st, ps, n) ==
    IF ps = <<>> \/ st.raised THEN st
    ELSE LET pos == Head(ps)
         IN  IF pos > 0 /\ ~InRange(st.s, pos - 1) THEN Raise(st.s)
             ELSE IF pos > 0 /\ ~CharIn(CharAt(st.s, pos - 1), padding_chars)
                  THEN ParenLoop(st, Tail(ps), n)
             ELSE IF pos + 1 < n
                  THEN IF ~InRange(st.s, pos + 1) THEN Raise(st.s)
                       ELSE ParenLoop(Ok(Slice(st.s, 0, pos + 1)
                                           \o Upper(CharAt(st.s, pos + 1))
                                           \o Slice(st.s, pos + 2, Len(st.s))),
                                      Tail(ps), n)
             ELSE ParenLoop(st, Tail(ps), n)

RECURSIVE UppercaseInsideParens(_, _, _)
\* Lines 466-471
UppercaseInsideParens(st, chars, n) ==
    IF chars = <<>> \/ st.raised THEN st
    ELSE UppercaseInsideParens(ParenLoop(st, findall(st.s, <<Head(chars)>>), n),
                               Tail(chars), n)

\* Lines 448-471: everything before the exception passes, for a non-empty t.
TitleCaseHead(t) ==
    LET lowered == StrLower(t)
        first   == IF lowered = <<>> THEN Raise(lowered)
                   ELSE Ok(Upper(CharAt(lowered, 0)) \o Slice(lowered, 1, Len(lowered)))
    IN  UppercaseInsideParens(
            UppercaseAfterPadding(first, padding_chars, Len(t)),
            paren_chars, Len(t))

RECURSIVE LowercaseLoop(_, _, _, _, _)
\* Lines 475-486 for the remaining positions ps of the exception word e
LowercaseLoop(st, ps, e, sl, n) ==
    IF ps = <<>> \/ st.raised THEN st
    ELSE LET pos  == Head(ps)
             wl   == Len(e)
             ends == pos + wl = n
         IN  IF pos < 2 THEN st
             ELSE IF ~InRange(sl, pos - 1) \/ (~ends /\ ~InRange(sl, pos + wl))
                  THEN Raise(st.s)
             ELSE IF /\ CharIn(CharAt(sl, pos - 1), padding_chars)
                     /\ ~ends
                     /\ CharIn(CharAt(sl, pos + wl), padding_chars)
                  THEN LowercaseLoop(Ok(Slice(st.s, 0, pos) \o StrLower(e)
                                           \o Slice(st.s, pos + wl, Len(st.s))),
                                     Tail(ps), e, sl, n)
                  ELSE LowercaseLoop(st, Tail(ps), e, sl, n)

\* One iteration of the loop of line 474, for the exception word e.
ProcessLowercase(st, e, sl, n) == LowercaseLoop(st, findall(sl, e), e, sl, n)

RECURSIVE UppercaseLoopOffByOne(_, _, _, _, _)
UppercaseLoopOffByOne(st, ps, e, sl, n) ==
    IF ps = <<>> \/ st.raised THEN st
    ELSE LET pos    == Head(ps)
             wl     == Len(e)
             starts == pos = 0
             ends   == pos + wl = n
         IN  IF (~starts /\ ~InRange(sl, pos - 1)) \/ (~ends /\ ~InRange(sl, pos + wl))
             THEN Raise(st.s)
             ELSE IF /\ starts \/ CharIn(CharAt(sl, pos - 1), padding_chars \o punctuation_chars)
                     /\ ends \/ CharIn(CharAt(sl, pos + wl), padding_chars \o punctuation_chars)
                  THEN UppercaseLoopOffByOne(Ok(Slice(st.s, 0, pos) \o StrUpper(e)
                                                  \o Slice(st.s, pos + 1, Len(st.s))),
                                             Tail(ps), e, sl, n)
                  ELSE UppercaseLoopOffByOne(st, Tail(ps), e, sl, n)

RECURSIVE UppercaseLoop(_, _, _, _, _)
\* Lines 490-503 for the remaining positions ps of the exception word e
UppercaseLoop(st, ps, e, sl, n) ==
    IF ps = <<>> \/ st.raised THEN st
    ELSE LET pos    == Head(ps)
             wl     == Len(e)
             starts == pos = 0
             ends   == pos + wl = n
         IN  IF (~starts /\ ~InRange(sl, pos - 1)) \/ (~ends /\ ~InRange(sl, pos + wl))
             THEN Raise(st.s)
             ELSE IF /\ starts \/ CharIn(CharAt(sl, pos - 1), padding_chars \o punctuation_chars)
                     /\ ends \/ CharIn(CharAt(sl, pos + wl), padding_chars \o punctuation_chars)
                  THEN UppercaseLoop(Ok(Slice(st.s, 0, pos) \o StrUpper(e)
                                          \o Slice(st.s, pos + wl, Len(st.s))),
                                     Tail(ps), e, sl, n)
                  ELSE UppercaseLoop(st, Tail(ps), e, sl, n)

\* One iteration of the loop of line 489, for the exception word e.
ProcessUppercase(st, e, sl, n) == UppercaseLoop(st, findall(sl, e), e, sl, n)

\* The words of a set whose loop body runs at least once on sl: for the
\* others findall yields nothing and the iteration leaves s alone.
Occurring(words, sl) == {e \in words : findall(sl, e) # <<>>}

RECURSIVE LowercasePassInOrder(_, _, _, _)
LowercasePassInOrder(st, es, sl, n) ==
    IF es = <<>> THEN st
    ELSE LowercasePassInOrder(ProcessLowercase(st, Head(es), sl, n), Tail(es), sl, n)

RECURSIVE UppercasePassInOrder(_, _, _, _)
UppercasePassInOrder(st, es, sl, n) ==
    IF es = <<>> THEN st
    ELSE UppercasePassInOrder(ProcessUppercase(st, Head(es), sl, n), Tail(es), sl, n)

\* The words of a list that occur in sl, in the order of the list.
OccurringInOrder(list, sl) == SelectSeq(list, LAMBDA e : findall(sl, e) # <<>>)

\* str_title_case(t) when both sets are iterated in the order their words
\* are written in the source.
str_title_case_in_order(t) ==
    IF t = <<>> THEN Ok(t)
    ELSE LET head    == TitleCaseHead(t)
             lowered == LowercasePassInOrder(
                            head, OccurringInOrder(lowercase_exceptions_list, StrLower(t)),
                            StrLower(t), Len(t))
         IN  IF head.raised THEN head
             ELSE IF lowered.raised THEN lowered
             ELSE UppercasePassInOrder(
                      lowered, OccurringInOrder(uppercase_exceptions_list, StrLower(t)),
                      StrLower(t), Len(t))

TitleChars == {"a", "A", "i", "n", " ", "-", "(", "ß"}

SampleTitles ==
    { <<"t", "h", "e", " ", "l", "o", "r", "d", " ", "o", "f", " ",
        "t", "h", "e", " ", "r", "i", "n", "g", "s">>,
      <<"s", "t", "a", "r", " ", "w", "a", "r", "s", ":", " ",
        "e", "p", "i", "s", "o", "d", "e", " ", "i", "v", " ", "-", " ",
        "a", " ", "n", "e", "w", " ", "h", "o", "p", "e">> }

TitleInputs == SeqsUpTo(TitleChars, MaxTitleLen) \cup SampleTitles

\* No call of str_title_case is under way.
TitleOff ==
    /\ tc_pc = "off"
    /\ tc_in = <<>>
    /\ s = <<>>
    /\ string_lower = <<>>
    /\ string_length = 0
    /\ lower_todo = {}
    /\ upper_todo = {}
    /\ tc_reapplied = FALSE

TitleCall ==
    /\ tc_pc = "call"
    /\ tc_in \in TitleInputs
    /\ s = tc_in
    /\ string_lower = <<>>
    /\ string_length = 0
    /\ lower_todo = {}
    /\ upper_todo = {}
    /\ tc_reapplied = FALSE

\* Lines 362-363: an empty string is returned as it is.
TitleCaseEmpty ==
    /\ tc_pc = "call"
    /\ s = <<>>
    /\ tc_pc' = "done"
    /\ UNCHANGED <<tc_in, s, string_lower, string_length, lower_todo, upper_todo,
                   tc_reapplied>>
    /\ UNCHANGED <<yr_vars, rq_vars>>

\* Lines 448-471: lowercase, then uppercase the first character, the
\* characters after padding and the characters inside parentheses.
TitleCaseBegin ==
    /\ tc_pc = "call"
    /\ s # <<>>
    /\ string_lower' = StrLower(s)
    /\ string_length' = Len(s)
    /\ s' = TitleCaseHead(s).s
    /\ lower_todo' = Occurring(lowercase_exceptions, StrLower(s))
    /\ upper_todo' = Occurring(uppercase_exceptions, StrLower(s))
    /\ tc_pc' = IF TitleCaseHead(s).raised THEN "raised" ELSE "lowercase"
    /\ UNCHANGED <<tc_in, tc_reapplied>>
    /\ UNCHANGED <<yr_vars, rq_vars>>

\* Lines 474-486: one iteration of the loop over the lowercase exceptions,
\* which is a set and is gone through in any order.
LowercaseException ==
    /\ tc_pc = "lowercase"
    /\ \E e \in lower_todo :
        /\ s' = ProcessLowercase(Ok(s), e, string_lower, string_length).s
        /\ tc_pc' = IF ProcessLowercase(Ok(s), e, string_lower, string_length).raised
                    THEN "raised" ELSE "lowercase"
        /\ lower_todo' = lower_todo \ {e}
    /\ UNCHANGED <<tc_in, string_lower, string_length, upper_todo, tc_reapplied>>
    /\ UNCHANGED <<yr_vars, rq_vars>>

\* The loop over the lowercase exceptions is over.
LowercaseDone ==
    /\ tc_pc = "lowercase"
    /\ lower_todo = {}
    /\ tc_pc' = "uppercase"
    /\ UNCHANGED <<tc_in, s, string_lower, string_length, lower_todo, upper_todo,
                   tc_reapplied>>
    /\ UNCHANGED <<yr_vars, rq_vars>>

\* Lines 489-503: one iteration of the loop over the uppercase exceptions.
UppercaseException ==
    /\ tc_pc = "uppercase"
    /\ \E e \in upper_todo :
        /\ s' = ProcessUppercase(Ok(s), e, string_lower, string_length).s
        /\ tc_pc' = IF ProcessUppercase(Ok(s), e, string_lower, string_length).raised
                    THEN "raised" ELSE "uppercase"
        /\ upper_todo' = upper_todo \ {e}
    /\ UNCHANGED <<tc_in, string_lower, string_length, lower_todo, tc_reapplied>>
    /\ UNCHANGED <<yr_vars, rq_vars>>

\* Line 505
TitleCaseReturn ==
    /\ tc_pc = "uppercase"
    /\ upper_todo = {}
    /\ tc_pc' = "done"
    /\ UNCHANGED <<tc_in, s, string_lower, string_length, lower_todo, upper_todo,
                   tc_reapplied>>
    /\ UNCHANGED <<yr_vars, rq_vars>>

\* The caller passes the returned string to str_title_case once more.
TitleCaseAgain ==
    /\ tc_pc = "done"
    /\ ~tc_reapplied
    /\ tc_in' = s
    /\ tc_reapplied' = TRUE
    /\ tc_pc' = "call"
    /\ string_lower' = <<>>
    /\ string_length' = 0
    /\ UNCHANGED <<s, lower_todo, upper_todo>>
    /\ UNCHANGED <<yr_vars, rq_vars>>

----------------------------------------------------------------------------
(* Specifications *)

InitYear == YearCall /\ RequestOff /\ TitleOff
NextYear == YearRangeParse
SpecYear == InitYear /\ [][NextYear]_vars

InitRequest == YearOff /\ RequestOff /\ TitleOff
NextRequest == ClearCache \/ RequestJsonAssertFails \/ RequestJson
SpecRequest == InitRequest /\ [][NextRequest]_vars

InitTitle == YearOff /\ RequestOff /\ TitleCall
NextTitle ==
    \/ TitleCaseEmpty
    \/ TitleCaseBegin
    \/ LowercaseException
    \/ LowercaseDone
    \/ UppercaseException
    \/ TitleCaseReturn
    \/ TitleCaseAgain
SpecTitle == InitTitle /\ [][NextTitle]_vars

Init == InitYear \/ InitRequest \/ InitTitle
Next == NextYear \/ NextRequest \/ NextTitle
Spec == Init /\ [][Next]_vars

----------------------------------------------------------------------------
(* Properties of year_range_parse *)

\* The text the pattern is matched against.
YearText == Strip(PyStr(years))

IsDelimRun(t) == \A k \in 1..Len(t) : t[k] \in DelimChars

IsYear(t) == Len(t) = 4 /\ IsYearAt(t, 1)

YearReturned(a, b) ==
    /\ ~yr_result.raised
    /\ yr_result.a = a
    /\ yr_result.b = b

\* C2: when the stripped input is a start year, a delimiter run (possibly
\* empty) and an end year, the result is (start - tolerance, end + tolerance).
YearRangeBothYears ==
    (yr_pc = "done" /\ Len(YearText) >= 8
        /\ IsYear(SubSeq(YearText, 1, 4))
        /\ IsYear(SubSeq(YearText, Len(YearText) - 3, Len(YearText)))
        /\ IsDelimRun(SubSeq(YearText, 5, Len(YearText) - 4)))
    => YearReturned(PyInt(SubSeq(YearText, 1, 4)) - tolerance,
                    PyInt(SubSeq(YearText, Len(YearText) - 3, Len(YearText))) + tolerance)

\* C3: for every input and every tolerance >= 0 the returned pair (a, b)
\* satisfies a <= b.
YearRangeOrdered ==
    (yr_pc = "done" /\ tolerance >= 0) => yr_result.a <= yr_result.b

\* C5: when the stripped input is exactly one year y and nothing else, the
\* result is (y - tolerance, y + tolerance).
SingleYearIsPoint ==
    (yr_pc = "done" /\ IsYear(YearText))
    => YearReturned(PyInt(YearText) - tolerance, PyInt(YearText) + tolerance)

SingleYearWitness ==
    /\ yr_pc = "done"
    /\ years = StrValue(<<"2", "0", "1", "0">>)
    /\ tolerance = 1
    /\ YearReturned(2009, 2011)

\* t is one year with a non-empty delimiter run after it / before it.
IsYearThenDelims(t) ==
    /\ Len(t) >= 5
    /\ IsYear(SubSeq(t, 1, 4))
    /\ IsDelimRun(SubSeq(t, 5, Len(t)))

IsDelimsThenYear(t) ==
    /\ Len(t) >= 5
    /\ IsYear(SubSeq(t, Len(t) - 3, Len(t)))
    /\ IsDelimRun(SubSeq(t, 1, Len(t) - 4))

\* C6 as stated: when the input holds exactly one year with at least one
\* delimiter character (dash, comma, colon, space) on its open side, the
\* missing end becomes CURRENT_YEAR and the missing start becomes 1900.
OpenRangeDefaultsRawInput ==
    /\ (yr_pc = "done" /\ IsYearThenDelims(PyStr(years)))
        => YearReturned(PyInt(SubSeq(PyStr(years), 1, 4)) - tolerance,
                        CURRENT_YEAR + tolerance)
    /\ (yr_pc = "done" /\ IsDelimsThenYear(PyStr(years)))
        => YearReturned(1900 - tolerance,
                        PyInt(SubSeq(PyStr(years), Len(PyStr(years)) - 3, Len(PyStr(years))))
                            + tolerance)

\* C6 amended: the same, for the delimiter characters that are left on the
\* open side once the surrounding whitespace of the input is stripped.
OpenRangeDefaults ==
    /\ (yr_pc = "done" /\ IsYearThenDelims(YearText))
        => YearReturned(PyInt(SubSeq(YearText, 1, 4)) - tolerance,
                        CURRENT_YEAR + tolerance)
    /\ (yr_pc = "done" /\ IsDelimsThenYear(YearText))
        => YearReturned(1900 - tolerance,
                        PyInt(SubSeq(YearText, Len(YearText) - 3, Len(YearText))) + tolerance)

OpenRangeWitness ==
    /\ yr_pc = "done"
    /\ years = StrValue(<<"-", "2", "0", "1", "0">>)
    /\ tolerance = 1
    /\ YearReturned(1899, 2011)

\* No year is captured: the stripped input is not of the form
\* [year] delimiters [year] with at least one of the two years.
NoYearCaptured ==
    ~ \E d \in 0..Len(YearText) :
        \/ /\ Len(YearText) = 4 + d
           /\ \/ IsYear(SubSeq(YearText, 1, 4)) /\ IsDelimRun(SubSeq(YearText, 5, Len(YearText)))
              \/ IsYear(SubSeq(YearText, d + 1, d + 4)) /\ IsDelimRun(SubSeq(YearText, 1, d))
        \/ /\ Len(YearText) = 8 + d
           /\ IsYear(SubSeq(YearText, 1, 4))
           /\ IsDelimRun(SubSeq(YearText, 5, 4 + d))
           /\ IsYear(SubSeq(YearText, 5 + d, 8 + d))

\* C7: year_range_parse never raises, and when no year is captured it
\* returns the full default range (1900 - tolerance, CURRENT_YEAR + tolerance).
NoYearGivesDefaultRange ==
    yr_pc = "done"
    => /\ ~yr_result.raised
       /\ NoYearCaptured => YearReturned(1900 - tolerance, CURRENT_YEAR + tolerance)

NoYearWitness ==
    /\ yr_pc = "done"
    /\ years = NoneValue
    /\ tolerance = 1
    /\ YearReturned(1899, CURRENT_YEAR + 1)

----------------------------------------------------------------------------
(* Properties of request_json *)

\* The last call of request_json returned (it did not fail its assert).
Returned == rq_outcome.kind # "none" /\ ~rq_return.raised

\* C4 as stated: (500, None) for every non-2xx response, for a transport
\* error and for a body that fails to decode; a payload only with a 2xx
\* status.
NonSuccessGives500 ==
    Returned =>
        /\ (rq_outcome.kind = "response" /\ rq_outcome.status_code \div 100 # 2)
              => rq_return.status = 500 /\ rq_return.content = PyNone
        /\ (rq_outcome.kind = "raise"
              \/ (rq_outcome.kind = "response" /\ rq_outcome.status_code \div 100 = 2
                    /\ rq_outcome.body \notin DOMAIN JsonTable))
              => rq_return.status = 500 /\ rq_return.content = PyNone
        /\ rq_return.content # PyNone => rq_return.status \div 100 = 2

\* C4 amended: (status, None) with the response's own status for a non-2xx
\* response; (500, None) for a transport error and for a 2xx body that fails
\* to decode; a payload only with a 2xx status.
NonSuccessGivesNoPayload ==
    Returned =>
        /\ (rq_outcome.kind = "response" /\ rq_outcome.status_code \div 100 # 2)
              => rq_return.status = rq_outcome.status_code /\ rq_return.content = PyNone
        /\ (rq_outcome.kind = "raise"
              \/ (rq_outcome.kind = "response" /\ rq_outcome.status_code \div 100 = 2
                    /\ rq_outcome.body \notin DOMAIN JsonTable))
              => rq_return.status = 500 /\ rq_return.content = PyNone
        /\ rq_return.content # PyNone => rq_return.status \div 100 = 2

NonSuccessWitness ==
    /\ Returned
    /\ rq_outcome = [kind |-> "response", status_code |-> 404, body |-> "{}"]
    /\ rq_return.status = 404
    /\ rq_return.content = PyNone

----------------------------------------------------------------------------
(* Properties of str_title_case *)

LordOfTheRings ==
    <<"t", "h", "e", " ", "l", "o", "r", "d", " ", "o", "f", " ",
      "t", "h", "e", " ", "r", "i", "n", "g", "s">>

\* e occurs in the input at the 0-based position pos, whatever its case,
\* with a padding character right before and right after it.
PaddedOccurrence(e, pos) ==
    /\ pos >= 1
    /\ pos + Len(e) < Len(tc_in)
    /\ StrLower(Slice(tc_in, pos, pos + Len(e))) = e
    /\ CharIn(CharAt(tc_in, pos - 1), padding_chars)
    /\ CharIn(CharAt(tc_in, pos + Len(e)), padding_chars)

\* C1: every occurrence of a lowercase exception that starts at position
\* >= 2 with a padding character right before and right after it is
\* lowercase in the result, wherever the other occurrences of the word are;
\* 'the lord of the rings' gives 'The Lord of the Rings'.
LowercaseExceptionsForced ==
    tc_pc = "done" =>
        /\ \A e \in lowercase_exceptions :
             \A pos \in 2..Len(tc_in) :
                PaddedOccurrence(e, pos) => Slice(s, pos, pos + Len(e)) = e
        /\ tc_in = LordOfTheRings =>
             s = <<"T", "h", "e", " ", "L", "o", "r", "d", " ", "o", "f", " ",
                   "t", "h", "e", " ", "R", "i", "n", "g", "s">>

\* C8: applying str_title_case to its own result gives that result back.
TitleCaseIdempotent ==
    (tc_pc = "done" /\ tc_reapplied) => s = tc_in

\* C9: the result has the length of the input and, at every position, the
\* character of the input up to case.
TitleCaseOnlyCase ==
    tc_pc = "done" =>
        /\ Len(s) = Len(tc_in)
        /\ \A k \in 1..Len(tc_in) : k <= Len(s) => Lower(s[k]) = Lower(tc_in[k])

====
